---- MODULE Spec2Model ----
(***************************************************************************)
(* A model of planner.py: the vacuum-world planner with its two search     *)
(* strategies dfs and ucs, the successor function move, the grid scan      *)
(* find_robot_and_dirty and the result rendering of main.                  *)
(*                                                                         *)
(* Python values are kept as they are in the code: a position is the pair  *)
(* <<r, c>> with 0-based row and column, a state is <<robot_pos, dirty>>   *)
(* with dirty a set of positions, a dfs stack entry is <<state, path>>, a  *)
(* ucs frontier entry is <<cost, state, path>>, and a search returns the   *)
(* triple <<path, nodes_generated, nodes_expanded>>.                       *)
(***************************************************************************)
EXTENDS Integers, Sequences, FiniteSets, TLC

VARIABLES
    GRID,           \* the global GRID: a sequence of rows of cell characters
    entry,          \* "main": run by main on a world file; "call": dfs/ucs
                    \* called directly; "move": move called directly
    algorithm,      \* "depth-first" or "uniform-cost"
    initial_state,  \* the argument of dfs / ucs
    run,            \* run[i]: the locals of the i-th execution of the search
    out,            \* what main has printed: a sequence of lines
    call            \* a direct call of move: its arguments and what it returned

vars == <<GRID, entry, algorithm, initial_state, run, out, call>>

(***************************************************************************)
(* Bounds of the model.                                                    *)
(***************************************************************************)
\* a grid has at most this many cells (rows * columns)
MaxCells == 4
\* an initial state has at most this many dirty cells
MaxDirty == 2

(***************************************************************************)
(* Constants of the program.                                               *)
(***************************************************************************)
\* a list of actions that starts with the vacuum action
Actions_vacuum_first == <<"V", "N", "S", "E", "W">>

\* the list of actions, in the order of the code (the name in the code is a
\* reserved word of TLA+)
Actions == <<"N", "S", "E", "W", "V">>

MOVES == [N |-> <<-1, 0>>, S |-> <<1, 0>>, E |-> <<0, 1>>, W |-> <<0, -1>>]

\* Python's None, as a value no position, path or state is equal to
None == <<"None">>

\* the cell characters of a world file: open, wall, dirty, robot
CellChars == {"_", "#", "*", "@"}

(***************************************************************************)
(* The grid.                                                               *)
(***************************************************************************)
\* len(GRID) and len(GRID[0])
Rows(grid) == Len(grid)
Cols(grid) == Len(grid[1])

\* the positions (r, c) of the grid, 0-based
Positions(grid) == (0 .. Rows(grid) - 1) \X (0 .. Cols(grid) - 1)

\* GRID[r][c]
Cell(grid, pos) == grid[pos[1] + 1][pos[2] + 1]

\* a move whose vacuum action returns the dirty set it was given
move_vacuum_keeps_dirt(robot_pos, dirty, action) ==
    LET r == robot_pos[1]
        c == robot_pos[2]
    IN  IF action = "V"
        THEN IF robot_pos \in dirty
             THEN <<robot_pos, dirty>>
             ELSE <<None, None>>
        ELSE LET new_r == r + MOVES[action][1]
                 new_c == c + MOVES[action][2]
             IN  IF /\ 0 <= new_r /\ new_r < Len(GRID)
                    /\ 0 <= new_c /\ new_c < Len(GRID[1])
                    /\ GRID[new_r + 1][new_c + 1] # "#"
                 THEN <<<<new_r, new_c>>, dirty>>
                 ELSE <<None, None>>

\* a move that does not look for a wall
move_through_walls(robot_pos, dirty, action) ==
    LET r == robot_pos[1]
        c == robot_pos[2]
    IN  IF action = "V"
        THEN IF robot_pos \in dirty
             THEN <<robot_pos, dirty \ {robot_pos}>>
             ELSE <<None, None>>
        ELSE LET new_r == r + MOVES[action][1]
                 new_c == c + MOVES[action][2]
             IN  IF /\ 0 <= new_r /\ new_r < Len(GRID)
                    /\ 0 <= new_c /\ new_c < Len(GRID[1])
                 THEN <<<<new_r, new_c>>, dirty>>
                 ELSE <<None, None>>

\* a move that looks for a wall at the position it leaves
move_wall_at_source(robot_pos, dirty, action) ==
    LET r == robot_pos[1]
        c == robot_pos[2]
    IN  IF action = "V"
        THEN IF robot_pos \in dirty
             THEN <<robot_pos, dirty \ {robot_pos}>>
             ELSE <<None, None>>
        ELSE LET new_r == r + MOVES[action][1]
                 new_c == c + MOVES[action][2]
             IN  IF /\ 0 <= new_r /\ new_r < Len(GRID)
                    /\ 0 <= new_c /\ new_c < Len(GRID[1])
                    /\ GRID[r + 1][c + 1] # "#"
                 THEN <<<<new_r, new_c>>, dirty>>
                 ELSE <<None, None>>

(***************************************************************************)
(* move(robot_pos, dirty, action): the successor state, or (None, None).   *)
(* It reads the global GRID.                                               *)
(***************************************************************************)
move(robot_pos, dirty, action) ==
    LET r == robot_pos[1]
        c == robot_pos[2]
    IN  IF action = "V"
        THEN IF robot_pos \in dirty
             THEN <<robot_pos, dirty \ {robot_pos}>>
             ELSE <<None, None>>
        ELSE LET new_r == r + MOVES[action][1]
                 new_c == c + MOVES[action][2]
             IN  IF /\ 0 <= new_r /\ new_r < Len(GRID)
                    /\ 0 <= new_c /\ new_c < Len(GRID[1])
                    /\ GRID[new_r + 1][new_c + 1] # "#"
                 THEN <<<<new_r, new_c>>, dirty>>
                 ELSE <<None, None>>

(***************************************************************************)
(* move on the set objects: objects[id] holds the members of the set       *)
(* object id, dirty_id is the object passed as dirty.  The result names    *)
(* the object returned as the successor's dirty set (0 with (None, None))  *)
(* and gives the members of every object after the call.                   *)
(***************************************************************************)
\* a vacuum action that removes the position from the set it was given
move_objects_in_place(robot_pos, dirty_id, action, objects) ==
    IF action = "V"
    THEN IF robot_pos \in objects[dirty_id]
         THEN [objects |-> [objects EXCEPT ![dirty_id] = @ \ {robot_pos}],
               ret_id |-> dirty_id]
         ELSE [objects |-> objects, ret_id |-> 0]
    ELSE IF move(robot_pos, objects[dirty_id], action)[1] # None
         THEN [objects |-> objects, ret_id |-> dirty_id]
         ELSE [objects |-> objects, ret_id |-> 0]

move_objects(robot_pos, dirty_id, action, objects) ==
    IF action = "V"
    THEN IF robot_pos \in objects[dirty_id]
         THEN LET \* new_dirty = dirty.copy()
                  copied == Append(objects, objects[dirty_id])
                  new_dirty == Len(copied)
                  \* new_dirty.remove(robot_pos)
                  removed == [copied EXCEPT ![new_dirty] = @ \ {robot_pos}]
              IN  [objects |-> removed, ret_id |-> new_dirty]
         ELSE [objects |-> objects, ret_id |-> 0]
    \* return ((new_r, new_c), dirty): the object it was given
    ELSE IF move(robot_pos, objects[dirty_id], action)[1] # None
         THEN [objects |-> objects, ret_id |-> dirty_id]
         ELSE [objects |-> objects, ret_id |-> 0]

(***************************************************************************)
(* find_robot_and_dirty(grid): the row-major scan; the last '@' met is the *)
(* robot, None when there is none; every '*' is a dirty cell.              *)
(***************************************************************************)
\* row-major order of two positions: a is scanned after b
ScannedAfter(a, b) == a[1] > b[1] \/ (a[1] = b[1] /\ a[2] > b[2])

find_robot_and_dirty(grid) ==
    LET robots == {p \in Positions(grid) : Cell(grid, p) = "@"}
        robot_pos == IF robots = {} THEN None
                     ELSE CHOOSE p \in robots :
                              \A q \in robots \ {p} : ScannedAfter(p, q)
        dirty == {p \in Positions(grid) : Cell(grid, p) = "*"}
    IN  <<robot_pos, dirty>>

(***************************************************************************)
(* sorted(dirty): Python iterates the set in an order of its own (ord, an  *)
(* enumeration of the set) and sorts the positions as tuples.              *)
(***************************************************************************)
\* Python's tuple order on positions: a < b
PosLess(a, b) == a[1] < b[1] \/ (a[1] = b[1] /\ a[2] < b[2])

\* insert x into the sorted sequence s, after the elements not greater
RECURSIVE InsertSorted(_, _)
InsertSorted(x, s) ==
    IF s = <<>> THEN <<x>>
    ELSE IF PosLess(x, Head(s)) THEN <<x>> \o s
    ELSE <<Head(s)>> \o InsertSorted(x, Tail(s))

\* no sorting: the positions in the order the set was iterated
sorted_as_iterated(ord) == ord

RECURSIVE sorted(_)
sorted(ord) ==
    IF ord = <<>> THEN <<>>
    ELSE InsertSorted(Head(ord), sorted(Tail(ord)))

\* the orders in which a set can be iterated
RECURSIVE Enumerations(_)
Enumerations(S) ==
    IF S = {} THEN {<<>>}
    ELSE UNION {{<<x>> \o e : e \in Enumerations(S \ {x})} : x \in S}

\* a key that leaves the dirty set out
state_id_position_only(robot_pos, ord) == <<robot_pos, <<>>>>

\* a key that holds the dirty cells in the order the set was iterated
state_id_unsorted(robot_pos, ord) == <<robot_pos, ord>>

\* state_id = (robot_pos, tuple(sorted(dirty)))
state_id(robot_pos, ord) == <<robot_pos, sorted(ord)>>

(***************************************************************************)
(* dfs(initial_state).  The locals of one execution are a record; pc is    *)
(* "while" at the head of the loop, "return" after a return statement and  *)
(* "raise" when an exception left the function.  move_calls counts the     *)
(* calls of move the execution has made.                                   *)
(***************************************************************************)
\* locals that count a node as expanded before the loop
dfs_locals_expanded_1(state) ==
    [stack |-> << <<state, <<>>>> >>,
     visited |-> {},
     nodes_generated |-> 1,
     nodes_expanded |-> 1,
     pc |-> "while",
     ret |-> <<>>,
     move_calls |-> 0]

\* lines 16-19
dfs_locals(state) ==
    [stack |-> << <<state, <<>>>> >>,
     visited |-> {},
     nodes_generated |-> 1,
     nodes_expanded |-> 0,
     pc |-> "while",
     ret |-> <<>>,
     move_calls |-> 0]

\* lines 38-43: the entries the for loop pushes, in the order it pushes them,
\* from action number i on
\* a loop that pushes the path without the action taken
RECURSIVE dfs_successors_same_path(_, _, _, _)
dfs_successors_same_path(robot_pos, dirty, path, i) ==
    IF i > Len(Actions) THEN <<>>
    ELSE LET action == Actions[i]
             new_state == move(robot_pos, dirty, action)
             rest == dfs_successors_same_path(robot_pos, dirty, path, i + 1)
         IN  IF new_state[1] # None
             THEN << <<new_state, path>> >> \o rest
             ELSE rest

RECURSIVE dfs_successors(_, _, _, _)
dfs_successors(robot_pos, dirty, path, i) ==
    IF i > Len(Actions) THEN <<>>
    ELSE LET action == Actions[i]
             new_state == move(robot_pos, dirty, action)
             rest == dfs_successors(robot_pos, dirty, path, i + 1)
         IN  IF new_state[1] # None
             THEN << <<new_state, Append(path, action)>> >> \o rest
             ELSE rest

\* a loop body that does not look the state up in visited
dfs_iteration_no_lookup(s, ord) ==
    LET top == s.stack[Len(s.stack)]
        stack == SubSeq(s.stack, 1, Len(s.stack) - 1)
        state == top[1]
        path == top[2]
        robot_pos == state[1]
        dirty == state[2]
        nodes_expanded == s.nodes_expanded + 1
        id == state_id(robot_pos, ord)
        popped == [s EXCEPT !.stack = stack, !.nodes_expanded = nodes_expanded]
    IN  IF Cardinality(dirty) = 0
        THEN [popped EXCEPT !.pc = "return",
                            !.ret = <<path, s.nodes_generated, nodes_expanded>>]
        ELSE IF robot_pos = None
        THEN [popped EXCEPT !.visited = s.visited \cup {id},
                            !.move_calls = s.move_calls + 1,
                            !.pc = "raise"]
        ELSE LET pushed == dfs_successors(robot_pos, dirty, path, 1)
             IN  [popped EXCEPT
                     !.stack = stack \o pushed,
                     !.visited = s.visited \cup {id},
                     !.nodes_generated = s.nodes_generated + Len(pushed),
                     !.move_calls = s.move_calls + Len(Actions)]

\* lines 22-43: one pass of the loop body; ord is the order in which Python
\* iterates the popped dirty set
dfs_iteration(s, ord) ==
    LET top == s.stack[Len(s.stack)]
        stack == SubSeq(s.stack, 1, Len(s.stack) - 1)
        state == top[1]
        path == top[2]
        robot_pos == state[1]
        dirty == state[2]
        nodes_expanded == s.nodes_expanded + 1
        id == state_id(robot_pos, ord)
        popped == [s EXCEPT !.stack = stack, !.nodes_expanded = nodes_expanded]
    IN  IF Cardinality(dirty) = 0
        THEN [popped EXCEPT !.pc = "return",
                            !.ret = <<path, s.nodes_generated, nodes_expanded>>]
        ELSE IF id \in s.visited
        THEN popped
        ELSE IF robot_pos = None
        \* move unpacks robot_pos: TypeError
        THEN [popped EXCEPT !.visited = s.visited \cup {id},
                            !.move_calls = s.move_calls + 1,
                            !.pc = "raise"]
        ELSE LET pushed == dfs_successors(robot_pos, dirty, path, 1)
             IN  [popped EXCEPT
                     !.stack = stack \o pushed,
                     !.visited = s.visited \cup {id},
                     !.nodes_generated = s.nodes_generated + Len(pushed),
                     !.move_calls = s.move_calls + Len(Actions)]

\* a loop that never leaves on an empty stack
dfs_step_spin(s, ord) ==
    IF s.pc # "while" THEN s
    ELSE IF s.stack = <<>> THEN s
    ELSE dfs_iteration(s, ord)

\* lines 21-45: the loop test, then the body or the final return
dfs_step(s, ord) ==
    IF s.pc # "while" THEN s
    ELSE IF s.stack = <<>>
    THEN [s EXCEPT !.pc = "return",
                   !.ret = <<None, s.nodes_generated, s.nodes_expanded>>]
    ELSE dfs_iteration(s, ord)

\* the dirty set of the entry the next pass pops
dfs_dirty(s) ==
    IF s.pc = "while" /\ s.stack # <<>>
    THEN s.stack[Len(s.stack)][1][2]
    ELSE {}

\* what a step can lead to: one outcome for each order in which the dirty
\* set can be iterated
dfs_steps(s) == {dfs_step(s, ord) : ord \in Enumerations(dfs_dirty(s))}

(***************************************************************************)
(* ucs(initial_state).                                                     *)
(***************************************************************************)
\* locals that count the initial node as not generated
ucs_locals_generated_0(state) ==
    [frontier |-> << <<0, state, <<>>>> >>,
     visited |-> {},
     nodes_generated |-> 0,
     nodes_expanded |-> 0,
     pc |-> "while",
     ret |-> <<>>,
     move_calls |-> 0]

\* lines 49-52
ucs_locals(state) ==
    [frontier |-> << <<0, state, <<>>>> >>,
     visited |-> {},
     nodes_generated |-> 1,
     nodes_expanded |-> 0,
     pc |-> "while",
     ret |-> <<>>,
     move_calls |-> 0]

\* lines 56-59: the scan for the lowest cost, at Python index i (0-based)
\* with the lowest index found so far
\* a scan that keeps the entry of the highest cost
RECURSIVE lowest_scan_greater(_, _, _)
lowest_scan_greater(frontier, i, lowest_index) ==
    IF i >= Len(frontier) THEN lowest_index
    ELSE IF frontier[i + 1][1] > frontier[lowest_index + 1][1]
    THEN lowest_scan_greater(frontier, i + 1, i)
    ELSE lowest_scan_greater(frontier, i + 1, lowest_index)

\* a scan that moves on to a later entry of the same cost
RECURSIVE lowest_scan_or_equal(_, _, _)
lowest_scan_or_equal(frontier, i, lowest_index) ==
    IF i >= Len(frontier) THEN lowest_index
    ELSE IF frontier[i + 1][1] <= frontier[lowest_index + 1][1]
    THEN lowest_scan_or_equal(frontier, i + 1, i)
    ELSE lowest_scan_or_equal(frontier, i + 1, lowest_index)

RECURSIVE lowest_scan(_, _, _)
lowest_scan(frontier, i, lowest_index) ==
    IF i >= Len(frontier) THEN lowest_index
    ELSE IF frontier[i + 1][1] < frontier[lowest_index + 1][1]
    THEN lowest_scan(frontier, i + 1, i)
    ELSE lowest_scan(frontier, i + 1, lowest_index)

\* the last index, without a scan
lowest_index_last(frontier) == Len(frontier) - 1

lowest_index(frontier) == lowest_scan(frontier, 1, 0)

\* a read of the element that leaves it in the list
pop_at_keeps(frontier, index) == frontier

\* frontier.pop(index): the list without the element at Python index
pop_at(frontier, index) ==
    SubSeq(frontier, 1, index) \o SubSeq(frontier, index + 2, Len(frontier))

\* a loop that gives a successor the cost of its parent
RECURSIVE ucs_successors_same_cost(_, _, _, _, _)
ucs_successors_same_cost(cost, robot_pos, dirty, path, i) ==
    IF i > Len(Actions) THEN <<>>
    ELSE LET action == Actions[i]
             new_state == move(robot_pos, dirty, action)
             rest == ucs_successors_same_cost(cost, robot_pos, dirty, path, i + 1)
         IN  IF new_state[1] # None
             THEN << <<cost, new_state, Append(path, action)>> >> \o rest
             ELSE rest

\* lines 75-80
RECURSIVE ucs_successors(_, _, _, _, _)
ucs_successors(cost, robot_pos, dirty, path, i) ==
    IF i > Len(Actions) THEN <<>>
    ELSE LET action == Actions[i]
             new_state == move(robot_pos, dirty, action)
             rest == ucs_successors(cost, robot_pos, dirty, path, i + 1)
         IN  IF new_state[1] # None
             THEN << <<cost + 1, new_state, Append(path, action)>> >> \o rest
             ELSE rest

\* lines 55-80
ucs_iteration(s, ord) ==
    LET index == lowest_index(s.frontier)
        node == s.frontier[index + 1]
        frontier == pop_at(s.frontier, index)
        cost == node[1]
        state == node[2]
        path == node[3]
        robot_pos == state[1]
        dirty == state[2]
        nodes_expanded == s.nodes_expanded + 1
        id == state_id(robot_pos, ord)
        popped == [s EXCEPT !.frontier = frontier,
                            !.nodes_expanded = nodes_expanded]
    IN  IF Cardinality(dirty) = 0
        THEN [popped EXCEPT !.pc = "return",
                            !.ret = <<path, s.nodes_generated, nodes_expanded>>]
        ELSE IF id \in s.visited
        THEN popped
        ELSE IF robot_pos = None
        THEN [popped EXCEPT !.visited = s.visited \cup {id},
                            !.move_calls = s.move_calls + 1,
                            !.pc = "raise"]
        ELSE LET pushed == ucs_successors(cost, robot_pos, dirty, path, 1)
             IN  [popped EXCEPT
                     !.frontier = frontier \o pushed,
                     !.visited = s.visited \cup {id},
                     !.nodes_generated = s.nodes_generated + Len(pushed),
                     !.move_calls = s.move_calls + Len(Actions)]

\* lines 54-82
ucs_step(s, ord) ==
    IF s.pc # "while" THEN s
    ELSE IF s.frontier = <<>>
    THEN [s EXCEPT !.pc = "return",
                   !.ret = <<None, s.nodes_generated, s.nodes_expanded>>]
    ELSE ucs_iteration(s, ord)

ucs_dirty(s) ==
    IF s.pc = "while" /\ s.frontier # <<>>
    THEN s.frontier[lowest_index(s.frontier) + 1][2][2]
    ELSE {}

ucs_steps(s) == {ucs_step(s, ord) : ord \in Enumerations(ucs_dirty(s))}

(***************************************************************************)
(* main: what it prints once the search has ended (lines 155-161), or in   *)
(* its exception handler (lines 166-168).  A line is a tuple of its parts. *)
(***************************************************************************)
RECURSIVE action_lines(_)
action_lines(path) ==
    IF path = <<>> THEN <<>>
    ELSE << <<Head(path)>> >> \o action_lines(Tail(path))

main_lines(s) ==
    IF s.pc = "raise" THEN << <<"Error">> >>
    ELSE LET path == s.ret[1]
             nodes_generated == s.ret[2]
             nodes_expanded == s.ret[3]
         IN  IF path = None
             THEN << <<"No path found.">> >>
             ELSE action_lines(path)
                  \o << <<nodes_generated, "nodes generated">>,
                        <<nodes_expanded, "nodes expanded">> >>

(***************************************************************************)
(* The inputs.                                                             *)
(***************************************************************************)
Shapes == {sh \in (1 .. MaxCells) \X (1 .. MaxCells) : sh[1] * sh[2] <= MaxCells}

GridsOver(chars) ==
    UNION {[1 .. sh[1] -> [1 .. sh[2] -> chars]] : sh \in Shapes}

\* the world files main reads: any cell characters
WorldGrids ==
    {g \in GridsOver(CellChars) :
        Cardinality(find_robot_and_dirty(g)[2]) <= MaxDirty}

\* the states dfs and ucs are called with directly: any position of the grid,
\* any set of at most MaxDirty positions of the grid
StatesOf(grid) ==
    {<<p, d>> : p \in Positions(grid),
                d \in {x \in SUBSET Positions(grid) : Cardinality(x) <= MaxDirty}}

Algorithms == {"depth-first", "uniform-cost"}

locals(alg, state) ==
    IF alg = "depth-first" THEN dfs_locals(state) ELSE ucs_locals(state)

\* main has loaded GRID and found the initial state (lines 131-143), or a
\* caller has set GRID and calls the search itself (to move a '*' or '@' cell
\* is an open cell, so the caller's grids hold '_' and '#' only); the search
\* has initialised its locals.
InitRuns(n) ==
    /\ algorithm \in Algorithms
    /\ \/ /\ entry = "main"
          /\ GRID \in WorldGrids
          /\ initial_state = find_robot_and_dirty(GRID)
       \/ /\ entry = "call"
          /\ GRID \in GridsOver({"_", "#"})
          /\ initial_state \in StatesOf(GRID)
    /\ run = [i \in 1 .. n |-> locals(algorithm, initial_state)]
    /\ out = <<>>
    /\ call = <<>>

Init == InitRuns(1)

(***************************************************************************)
(* The actions: one pass of the search loop in every execution, each with  *)
(* its own iteration order of the dirty set; main's printing.              *)
(***************************************************************************)
dfs ==
    /\ entry \in {"main", "call"}
    /\ algorithm = "depth-first"
    /\ \E i \in DOMAIN run : run[i].pc = "while"
    /\ \E s1 \in dfs_steps(run[1]),
          s2 \in IF 2 \in DOMAIN run THEN dfs_steps(run[2]) ELSE {<<>>} :
          run' = [i \in DOMAIN run |-> IF i = 1 THEN s1 ELSE s2]
    /\ UNCHANGED <<GRID, entry, algorithm, initial_state, out, call>>

ucs ==
    /\ entry \in {"main", "call"}
    /\ algorithm = "uniform-cost"
    /\ \E i \in DOMAIN run : run[i].pc = "while"
    /\ \E s1 \in ucs_steps(run[1]),
          s2 \in IF 2 \in DOMAIN run THEN ucs_steps(run[2]) ELSE {<<>>} :
          run' = [i \in DOMAIN run |-> IF i = 1 THEN s1 ELSE s2]
    /\ UNCHANGED <<GRID, entry, algorithm, initial_state, out, call>>

main_output ==
    /\ entry = "main"
    /\ run[1].pc # "while"
    /\ out = <<>>
    /\ out' = main_lines(run[1])
    /\ UNCHANGED <<GRID, entry, algorithm, initial_state, run, call>>

Next == dfs \/ ucs \/ main_output

Spec == Init /\ [][Next]_vars

\* the same search executed twice on the same GRID and initial state, the
\* two executions stepped side by side
InitTwice == InitRuns(2)

NextTwice == dfs \/ ucs

SpecTwice == InitTwice /\ [][NextTwice]_vars

\* move called on its own: any grid, any position of it, any set of at most
\* MaxDirty positions of it, any action; the set passed as dirty is object 1,
\* which the caller (a frontier entry's state) goes on holding
InitMove ==
    /\ entry = "move"
    /\ GRID \in GridsOver(CellChars)
    /\ \E st \in StatesOf(GRID), i \in DOMAIN Actions :
           call = [robot_pos |-> st[1], dirty |-> st[2], action |-> Actions[i],
                   ret |-> <<>>, objects |-> <<st[2]>>, ret_id |-> 0]
    /\ algorithm = "none"
    /\ initial_state = <<>>
    /\ run = <<>>
    /\ out = <<>>

call_move ==
    /\ entry = "move"
    /\ call.ret = <<>>
    /\ LET after == move_objects(call.robot_pos, 1, call.action, call.objects)
       IN  call' = [call EXCEPT
                       !.ret = move(call.robot_pos, call.dirty, call.action),
                       !.objects = after.objects,
                       !.ret_id = after.ret_id]
    /\ UNCHANGED <<GRID, entry, algorithm, initial_state, run, out>>

NextMove == call_move

SpecMove == InitMove /\ [][NextMove]_vars

\* a sequential program keeps running while it has a statement to run
FairSpec == Spec /\ WF_vars(Next)

(***************************************************************************)
(* The state graph induced by move, for the statements about the searches. *)
(***************************************************************************)
\* the successors of a state: what move accepts
Successors(state) ==
    IF state[1] = None THEN {}
    ELSE {move(state[1], state[2], Actions[i]) : i \in DOMAIN Actions}
             \ {<<None, None>>}

\* the states reachable from the states of todo, seen being reached already
RECURSIVE ReachableFrom(_, _)
ReachableFrom(seen, todo) ==
    IF todo = {} THEN seen
    ELSE LET new == UNION {Successors(st) : st \in todo} \ seen
         IN  ReachableFrom(seen \cup new, new)

Reachable(state) == ReachableFrom({state}, {state})

IsGoal(state) == state[2] = {}

GoalReachable(state) == \E st \in Reachable(state) : IsGoal(st)

\* the breadth-first distance from the states of level (at distance k) to
\* the nearest goal state; -1 when there is none
RECURSIVE Distance(_, _, _)
Distance(seen, level, k) ==
    IF \E st \in level : IsGoal(st) THEN k
    ELSE LET new == UNION {Successors(st) : st \in level} \ seen
         IN  IF new = {} THEN -1 ELSE Distance(seen \cup new, new, k + 1)

ShortestDistance(state) == Distance({state}, {state}, 0)

\* the state a path leads to from state, (None, None) once move rejects a step
RECURSIVE Replay(_, _)
Replay(state, path) ==
    IF path = <<>> THEN state
    ELSE IF state[1] = None THEN <<None, None>>
    ELSE Replay(move(state[1], state[2], Head(path)), Tail(path))

\* the states whose keys are in the visited set
Expanded(s) == {<<k[1], {k[2][j] : j \in DOMAIN k[2]}>> : k \in s.visited}

\* the entries waiting in the stack of dfs or the frontier of ucs
Pending(s) == IF algorithm = "depth-first" THEN s.stack ELSE s.frontier

Returned(i) == run[i].pc = "return"
ReturnedPath(i) == run[i].ret[1]

\* the initial state is a state: it has an agent position
HasPosition == initial_state[1] # None

Searching == entry \in {"main", "call"}

(***************************************************************************)
(* C1: when a goal state is reachable, the path ucs returns is as long as  *)
(* the breadth-first distance from the initial state to the nearest goal   *)
(* state, so no shorter action sequence reaches a goal.                    *)
(***************************************************************************)
C1_UcsShortest ==
    (Searching /\ algorithm = "uniform-cost" /\ Returned(1)
        /\ GoalReachable(initial_state))
    => /\ ReturnedPath(1) # None
       /\ Len(ReturnedPath(1)) = ShortestDistance(initial_state)
       /\ IsGoal(Replay(initial_state, ReturnedPath(1)))

\* ucs has returned a path of three actions or more
C1_Witness ==
    /\ Searching /\ algorithm = "uniform-cost" /\ Returned(1)
    /\ ReturnedPath(1) # None
    /\ Len(ReturnedPath(1)) >= 3

(***************************************************************************)
(* C2: when a goal state is reachable, dfs returns a path, move rejects no *)
(* step of it from the initial state, and it ends with no dirty cell.      *)
(***************************************************************************)
C2_DfsPathValid ==
    (Searching /\ algorithm = "depth-first" /\ Returned(1)
        /\ GoalReachable(initial_state))
    => /\ ReturnedPath(1) # None
       /\ \A n \in 0 .. Len(ReturnedPath(1)) :
              Replay(initial_state, SubSeq(ReturnedPath(1), 1, n))[1] # None
                  \/ (n = 0 /\ ~HasPosition)
       /\ Replay(initial_state, ReturnedPath(1))[2] = {}

\* dfs has returned a path longer than the shortest one
C2_Witness ==
    /\ Searching /\ algorithm = "depth-first" /\ Returned(1)
    /\ ReturnedPath(1) # None
    /\ Len(ReturnedPath(1)) > ShortestDistance(initial_state)
    /\ ShortestDistance(initial_state) >= 2

(***************************************************************************)
(* C3: dfs and ucs terminate: called with a state (one that has an agent   *)
(* position), every execution reaches a return statement, that of a path   *)
(* or that of None after the frontier has emptied.                         *)
(***************************************************************************)
C3_Terminates ==
    (Searching /\ HasPosition) ~> (\A i \in DOMAIN run : Returned(i))

\* a search has returned after ten passes of its loop or more
C3_Witness ==
    /\ Searching /\ HasPosition /\ Returned(1)
    /\ run[1].nodes_expanded >= 10

(***************************************************************************)
(* C4: called with a state from which no goal state is reachable, dfs and  *)
(* ucs return None, and every state reachable from the initial state (none *)
(* of them a goal) is then in the visited set; when a goal state is        *)
(* reachable they do not return None.                                      *)
(***************************************************************************)
C4_FailureIffNoGoal ==
    (Searching /\ HasPosition /\ Returned(1))
    => IF GoalReachable(initial_state)
       THEN ReturnedPath(1) # None
       ELSE /\ ReturnedPath(1) = None
            /\ {st \in Reachable(initial_state) : ~IsGoal(st)}
                   \subseteq Expanded(run[1])

\* a search has returned None after expanding three states or more
C4_Witness ==
    /\ Searching /\ HasPosition /\ Returned(1)
    /\ ReturnedPath(1) = None
    /\ ~GoalReachable(initial_state)
    /\ Cardinality(run[1].visited) >= 3

(***************************************************************************)
(* C5: called with a state that has no dirty cell, dfs and ucs return in   *)
(* the first pass of the loop: the empty path, one node generated, one     *)
(* node expanded, no call of move, nothing in the visited set.             *)
(***************************************************************************)
C5_NoDirtReturnsAtOnce ==
    (Searching /\ initial_state[2] = {})
    => \A i \in DOMAIN run :
           \/ run[i] = locals(algorithm, initial_state)
           \/ /\ run[i].pc = "return"
              /\ run[i].ret = <<<<>>, 1, 1>>
              /\ run[i].nodes_generated = 1
              /\ run[i].nodes_expanded = 1
              /\ run[i].visited = {}
              /\ run[i].move_calls = 0

\* ucs has returned on a grid of two rows with no dirty cell
C5_Witness ==
    /\ Searching /\ initial_state[2] = {} /\ algorithm = "uniform-cost"
    /\ Returned(1) /\ Rows(GRID) = 2

(***************************************************************************)
(* C6: two executions of the same search on the same grid and initial      *)
(* state, stepped side by side, have the same frontier, visited set,       *)
(* counters and returned value after every pass, whatever the order in     *)
(* which each iterates its dirty sets.                                     *)
(***************************************************************************)
C6_TwiceTheSame ==
    Searching => \A i, j \in DOMAIN run : run[i] = run[j]

\* both executions have returned a path of three actions or more, having
\* put the key of a state with two dirty cells in the visited set
C6_Witness ==
    /\ Searching /\ DOMAIN run = {1, 2}
    /\ Returned(1) /\ Returned(2)
    /\ ReturnedPath(1) # None /\ Len(ReturnedPath(1)) >= 3
    /\ \E k \in run[2].visited : Len(k[2]) = 2

(***************************************************************************)
(* C7: on the grid of one open cell, with the agent on it and the cell     *)
(* dirty, dfs and ucs return the path [V].  As claimed: with one node      *)
(* generated and one expanded.  As the code has it: two generated (the     *)
(* initial node and the cleaning successor) and two expanded.              *)
(***************************************************************************)
ScenarioA ==
    /\ Searching
    /\ Rows(GRID) = 1 /\ Cols(GRID) = 1 /\ Cell(GRID, <<0, 0>>) # "#"
    /\ initial_state = <<<<0, 0>>, {<<0, 0>>}>>

C7_Original ==
    (ScenarioA /\ Returned(1)) => run[1].ret = <<<<"V">>, 1, 1>>

C7_Amended ==
    (ScenarioA /\ Returned(1)) => run[1].ret = <<<<"V">>, 2, 2>>

\* dfs has returned in the scenario
C7_Witness == ScenarioA /\ Returned(1) /\ algorithm = "depth-first"

(***************************************************************************)
(* C8: when a search ends with its frontier empty, it returns None with    *)
(* the two counters, and what main prints for it holds the two counters    *)
(* beside "No path found.".                                                *)
(***************************************************************************)
Printed(line) == \E n \in DOMAIN out : out[n] = line

C8_FailureReportsCounters ==
    (entry = "main" /\ Returned(1) /\ ReturnedPath(1) = None)
    => /\ run[1].ret = <<None, run[1].nodes_generated, run[1].nodes_expanded>>
       /\ out # <<>> =>
              /\ Printed(<<"No path found.">>)
              /\ Printed(<<run[1].nodes_generated, "nodes generated">>)
              /\ Printed(<<run[1].nodes_expanded, "nodes expanded">>)

(***************************************************************************)
(* C9: for the action V, move returns a successor exactly when the agent's *)
(* position is in the dirty set; the successor has the same position and   *)
(* the dirty set without that one position; otherwise it returns           *)
(* (None, None).                                                           *)
(***************************************************************************)
MoveCalled == entry = "move" /\ call.ret # <<>>

C9_VacuumRule ==
    (MoveCalled /\ call.action = "V")
    => IF call.robot_pos \in call.dirty
       THEN /\ call.ret[1] = call.robot_pos
            /\ call.robot_pos \notin call.ret[2]
            /\ call.ret[2] \cup {call.robot_pos} = call.dirty
       ELSE call.ret = <<None, None>>

\* V was applied on a dirty cell, another cell being dirty too
C9_Witness ==
    /\ MoveCalled /\ call.action = "V"
    /\ call.robot_pos \in call.dirty
    /\ Cardinality(call.dirty) = 2
    /\ call.ret[1] # None

(***************************************************************************)
(* C10: for N, S, E and W, move returns a successor exactly when the       *)
(* target (the position plus the action's delta) is inside the grid and    *)
(* its cell is not a wall; the successor has the target as position and    *)
(* the dirty set it was given; otherwise it returns (None, None).          *)
(***************************************************************************)
Target(pos, action) ==
    <<pos[1] + MOVES[action][1], pos[2] + MOVES[action][2]>>

C10_DirectionRule ==
    (MoveCalled /\ call.action \in {"N", "S", "E", "W"})
    => LET target == Target(call.robot_pos, call.action)
       IN  IF target \in Positions(GRID) /\ Cell(GRID, target) # "#"
           THEN call.ret = <<target, call.dirty>>
           ELSE call.ret = <<None, None>>

\* S was applied and led onto a dirty cell
C10_Witness ==
    /\ MoveCalled /\ call.action = "S"
    /\ call.ret[1] # None
    /\ call.ret[1] \in call.ret[2]
    /\ Cell(GRID, call.ret[1]) = "*"

(***************************************************************************)
(* C11: ucs removes the frontier entries in the order it inserted them:    *)
(* at every pass the frontier is sorted by non-decreasing cost and the     *)
(* scan selects its first entry, which is what a first-in-first-out queue  *)
(* (breadth-first search) removes; the rest of the pass depends on the     *)
(* frontier through the selected index only.                               *)
(***************************************************************************)
AtLoop(s) == s.pc = "while"

SortedByCost(frontier) ==
    \A m, n \in DOMAIN frontier : m < n => frontier[m][1] <= frontier[n][1]

C11_UcsIsFifo ==
    (Searching /\ algorithm = "uniform-cost")
    => \A i \in DOMAIN run :
           (AtLoop(run[i]) /\ run[i].frontier # <<>>)
           => /\ SortedByCost(run[i].frontier)
              /\ lowest_index(run[i].frontier) = 0
              /\ pop_at(run[i].frontier, lowest_index(run[i].frontier))
                     = Tail(run[i].frontier)

\* a frontier of three entries or more, of two costs, the first cost twice
C11_Witness ==
    /\ Searching /\ algorithm = "uniform-cost" /\ AtLoop(run[1])
    /\ Len(run[1].frontier) >= 3
    /\ run[1].frontier[1][1] = run[1].frontier[2][1]
    /\ run[1].frontier[1][1] < run[1].frontier[Len(run[1].frontier)][1]

(***************************************************************************)
(* C12: in ucs the entry removed in a pass costs no more than any entry of *)
(* the frontier (so than any entry that remains, also when it is a goal    *)
(* entry), and no more than the entry removed in the next pass.            *)
(***************************************************************************)
\* the entry the next pass of ucs removes
ucs_node(s) == s.frontier[lowest_index(s.frontier) + 1]

UcsRemoves(s) == AtLoop(s) /\ s.frontier # <<>>

C12_Step ==
    (Searching /\ algorithm = "uniform-cost")
    => \A i \in DOMAIN run :
           UcsRemoves(run[i])
           => /\ \A n \in DOMAIN run[i].frontier :
                     ucs_node(run[i])[1] <= run[i].frontier[n][1]
              /\ \A n \in DOMAIN run'[i].frontier :
                     n <= Len(run[i].frontier) - 1
                         => ucs_node(run[i])[1] <= run'[i].frontier[n][1]
              /\ UcsRemoves(run'[i])
                     => ucs_node(run[i])[1] <= ucs_node(run'[i])[1]

C12_RemovedCostsAscend == [][C12_Step]_vars

\* a goal entry is about to be removed while entries of a higher cost wait
C12_Witness ==
    /\ Searching /\ algorithm = "uniform-cost" /\ UcsRemoves(run[1])
    /\ IsGoal(ucs_node(run[1])[2])
    /\ ucs_node(run[1])[1] >= 2
    /\ \E n \in DOMAIN run[1].frontier :
           run[1].frontier[n][1] > ucs_node(run[1])[1]

(***************************************************************************)
(* C13: dfs and ucs generate the successors of a canonical state at most   *)
(* once: a removed entry that is no goal and whose state is in the visited *)
(* set pushes nothing and leaves the generated count as it is; nodes are   *)
(* generated only in a pass that puts a new state in the visited set; and  *)
(* the visited set only grows.                                             *)
(***************************************************************************)
Removes(s) == AtLoop(s) /\ Pending(s) # <<>>

\* the state of the entry the next pass removes, and the entries it leaves
RemovedState(s) ==
    IF algorithm = "depth-first" THEN s.stack[Len(s.stack)][1]
    ELSE ucs_node(s)[2]

Remaining(s) ==
    IF algorithm = "depth-first" THEN SubSeq(s.stack, 1, Len(s.stack) - 1)
    ELSE pop_at(s.frontier, lowest_index(s.frontier))

C13_Step ==
    Searching
    => \A i \in DOMAIN run :
           /\ run[i].visited \subseteq run'[i].visited
           /\ Removes(run[i])
              => LET st == RemovedState(run[i])
                 IN  /\ (~IsGoal(st) /\ st \in Expanded(run[i]))
                        => /\ Pending(run'[i]) = Remaining(run[i])
                           /\ run'[i].nodes_generated = run[i].nodes_generated
                           /\ run'[i].visited = run[i].visited
                     /\ (\/ run'[i].nodes_generated # run[i].nodes_generated
                         \/ Pending(run'[i]) # Remaining(run[i]))
                        => /\ st \notin Expanded(run[i])
                           /\ st \in Expanded(run'[i])

C13_ExpandedOnce == [][C13_Step]_vars

\* dfs is about to remove an entry, no goal, whose state is in visited
C13_Witness ==
    /\ Searching /\ algorithm = "depth-first" /\ Removes(run[1])
    /\ ~IsGoal(RemovedState(run[1]))
    /\ RemovedState(run[1]) \in Expanded(run[1])
    /\ Cardinality(run[1].visited) >= 3

(***************************************************************************)
(* C14: when the initial agent position is in the grid on a cell that is   *)
(* no wall, every state in the frontier or in the visited set has its      *)
(* agent position in the grid on a cell that is no wall, and a dirty set   *)
(* that is a subset of the initial dirty set.                              *)
(***************************************************************************)
OnOpenCell(pos) == pos \in Positions(GRID) /\ Cell(GRID, pos) # "#"

\* the states of the entries waiting in the frontier
PendingStates(s) ==
    {IF algorithm = "depth-first" THEN Pending(s)[n][1] ELSE Pending(s)[n][2] :
        n \in DOMAIN Pending(s)}

C14_StatesWellFormed ==
    (Searching /\ HasPosition /\ OnOpenCell(initial_state[1]))
    => \A i \in DOMAIN run :
           \A st \in PendingStates(run[i]) \cup Expanded(run[i]) :
               /\ OnOpenCell(st[1])
               /\ st[2] \subseteq initial_state[2]

\* in a grid with a wall, an entry with fewer dirty cells than at the start
\* waits in the frontier, two states being in the visited set
C14_Witness ==
    /\ Searching /\ HasPosition /\ OnOpenCell(initial_state[1])
    /\ \E p \in Positions(GRID) : Cell(GRID, p) = "#"
    /\ Cardinality(run[1].visited) >= 2
    /\ \E st \in PendingStates(run[1]) :
           st[2] # initial_state[2] /\ st[2] # {}

(***************************************************************************)
(* C15: dfs pushes the successors of the state it expands in the order N,  *)
(* S, E, W, V on top of the entries that remain, and removes the last      *)
(* entry of the stack: the entry removed right after an expansion is the   *)
(* successor by the last action of that order that move accepts, so the    *)
(* cleaning successor whenever the agent stands on a dirty cell.           *)
(***************************************************************************)
EnumerationOrder == <<"N", "S", "E", "W", "V">>

\* the next pass of dfs expands the state of the entry it removes
DfsExpands(s) ==
    /\ Removes(s)
    /\ ~IsGoal(RemovedState(s))
    /\ RemovedState(s) \notin Expanded(s)
    /\ RemovedState(s)[1] # None

C15_Step ==
    (Searching /\ algorithm = "depth-first")
    => \A i \in DOMAIN run :
           /\ (Removes(run[i]) /\ AtLoop(run'[i]))
              => SubSeq(run'[i].stack, 1, Len(run[i].stack) - 1)
                     = SubSeq(run[i].stack, 1, Len(run[i].stack) - 1)
           /\ DfsExpands(run[i])
              => LET st == RemovedState(run[i])
                     path == run[i].stack[Len(run[i].stack)][2]
                     base == Len(run[i].stack) - 1
                     valid == {n \in DOMAIN EnumerationOrder :
                                  move(st[1], st[2], EnumerationOrder[n])[1] # None}
                     rank(n) == Cardinality({m \in valid : m <= n})
                     top == run'[i].stack[Len(run'[i].stack)]
                 IN  /\ Len(run'[i].stack) = base + Cardinality(valid)
                     /\ \A n \in valid :
                            run'[i].stack[base + rank(n)]
                                = <<move(st[1], st[2], EnumerationOrder[n]),
                                    Append(path, EnumerationOrder[n])>>
                     /\ valid # {}
                        => LET last == CHOOSE n \in valid : \A m \in valid : m <= n
                           IN  top = <<move(st[1], st[2], EnumerationOrder[last]),
                                       Append(path, EnumerationOrder[last])>>
                     /\ st[1] \in st[2]
                        => top = <<<<st[1], st[2] \ {st[1]}>>, Append(path, "V")>>

C15_DfsPushOrder == [][C15_Step]_vars

\* dfs has expanded a state whose agent stood on a dirty cell and could move
\* in two directions: the cleaning successor is on top of the stack
C15_Witness ==
    /\ Searching /\ algorithm = "depth-first" /\ AtLoop(run[1])
    /\ Len(run[1].stack) >= 3
    /\ LET top == run[1].stack[Len(run[1].stack)]
           below == run[1].stack[Len(run[1].stack) - 1]
           under == run[1].stack[Len(run[1].stack) - 2]
       IN  /\ Len(top[2]) >= 2
           /\ top[2][Len(top[2])] = "V"
           /\ Len(below[2]) = Len(top[2])
           /\ Len(under[2]) = Len(top[2])
           /\ SubSeq(below[2], 1, Len(top[2]) - 1) = SubSeq(top[2], 1, Len(top[2]) - 1)

(***************************************************************************)
(* C16: a call of move leaves the grid, the position and the set object    *)
(* passed as dirty as they were: the object has the same members after the *)
(* call (cleaning removes from a copy), also when the successor returned   *)
(* holds that very object, so a state that holds it (that of a frontier    *)
(* entry) is not altered by the call.                                      *)
(***************************************************************************)
C16_Step ==
    (entry = "move" /\ call.ret = <<>> /\ call'.ret # <<>>)
    => /\ GRID' = GRID
       /\ call'.robot_pos = call.robot_pos
       /\ \A id \in DOMAIN call.objects :
              call'.objects[id] = call.objects[id]
       /\ call'.objects[1] = call.dirty
       /\ call'.ret[1] # None
          => /\ call'.ret_id \in DOMAIN call'.objects
             /\ call'.objects[call'.ret_id] = call'.ret[2]
       /\ (call'.ret[1] # None /\ call.action # "V") => call'.ret_id = 1

C16_MoveHasNoSideEffect == [][C16_Step]_vars

\* V was applied on a dirty cell: the successor holds a new object, with one
\* member fewer than the object passed
C16_Witness ==
    /\ MoveCalled /\ call.action = "V"
    /\ call.ret_id = 2
    /\ call.objects[1] = call.dirty
    /\ call.objects[2] = call.dirty \ {call.robot_pos}
    /\ call.objects[2] # call.objects[1]

(***************************************************************************)
(* C17: at the head of the loop of dfs and ucs, the generated count is the *)
(* expanded count plus the number of entries in the frontier; so when None *)
(* is returned the two counts are equal, and when a path is returned the   *)
(* generated count is at least the expanded count.                         *)
(***************************************************************************)
C17_CountersBalance ==
    Searching
    => \A i \in DOMAIN run :
           /\ AtLoop(run[i])
              => run[i].nodes_generated
                     = run[i].nodes_expanded + Len(Pending(run[i]))
           /\ Returned(i)
              => /\ run[i].ret[2] = run[i].nodes_generated
                 /\ run[i].ret[3] = run[i].nodes_expanded
                 /\ IF ReturnedPath(i) = None
                    THEN run[i].ret[2] = run[i].ret[3]
                    ELSE run[i].ret[2] >= run[i].ret[3]

\* ucs has returned None after five passes or more
C17_Witness ==
    /\ Searching /\ algorithm = "uniform-cost" /\ Returned(1)
    /\ ReturnedPath(1) = None
    /\ run[1].ret[3] >= 5

(***************************************************************************)
(* C18: for every entry in the frontier of dfs or ucs, move rejects no     *)
(* step of the entry's path from the initial state and the path ends in    *)
(* the entry's state; in ucs the entry's cost is the length of its path.   *)
(***************************************************************************)
EntryState(e) == IF algorithm = "depth-first" THEN e[1] ELSE e[2]
EntryPath(e) == IF algorithm = "depth-first" THEN e[2] ELSE e[3]

C18_EntriesReplay ==
    Searching
    => \A i \in DOMAIN run :
           \A n \in DOMAIN Pending(run[i]) :
               LET e == Pending(run[i])[n]
               IN  /\ Replay(initial_state, EntryPath(e)) = EntryState(e)
                   /\ \A m \in 1 .. Len(EntryPath(e)) :
                          Replay(initial_state, SubSeq(EntryPath(e), 1, m))[1] # None
                   /\ algorithm = "uniform-cost" => e[1] = Len(EntryPath(e))

\* the frontier of ucs holds an entry of cost three or more
C18_Witness ==
    /\ Searching /\ algorithm = "uniform-cost" /\ AtLoop(run[1])
    /\ \E n \in DOMAIN run[1].frontier :
           /\ run[1].frontier[n][1] >= 3
           /\ Len(run[1].frontier[n][3]) >= 3

(***************************************************************************)
(* C19: the path dfs or ucs returns passes through no state twice: the     *)
(* states it leads through from the initial state are all different, so    *)
(* it is shorter than the number of states reachable from the initial      *)
(* state.                                                                  *)
(***************************************************************************)
StateAfter(path, n) == Replay(initial_state, SubSeq(path, 1, n))

C19_PathLoopFree ==
    (Searching /\ Returned(1) /\ ReturnedPath(1) # None)
    => LET path == ReturnedPath(1)
       IN  /\ \A m, n \in 0 .. Len(path) :
                  m # n => StateAfter(path, m) # StateAfter(path, n)
           /\ Len(path) < Cardinality(Reachable(initial_state))

\* dfs has returned a path of four actions or more, longer than the shortest
C19_Witness ==
    /\ Searching /\ algorithm = "depth-first" /\ Returned(1)
    /\ ReturnedPath(1) # None
    /\ Len(ReturnedPath(1)) >= 4
    /\ Len(ReturnedPath(1)) > ShortestDistance(initial_state)

====
